---- MODULE Spec2Model ----
(***************************************************************************)
(* Model of StockAnalysisAgent (src/stock_agent.py) and of the way the     *)
(* dashboard script (src/app.py) drives it.                                *)
(*                                                                         *)
(* Python values are tagged records:                                       *)
(*   None            [t |-> "none"]                                        *)
(*   a str           a TLA+ string where the code only handles text (ticker *)
(*                   symbols, names, links), [t |-> "str", s |-> "..."]    *)
(*                   where a value may also be a number or None            *)
(*   a float         [t |-> "num", sg |-> 1 or -1, m |-> digits, x |-> e]  *)
(*                   for the binary64 value sg * m * 2^e,                  *)
(*                   [t |-> "inf", sg |-> 1 or -1], [t |-> "nan"]          *)
(*   a raised exception, as the outcome of an expression: [t |-> "raise"]  *)
(* Strings hold ASCII characters only.  Decimal literals are read and      *)
(* floats are printed for decimal exponents up to about 100 in magnitude.  *)
(***************************************************************************)
EXTENDS Integers, Sequences, FiniteSets, TLC

VARIABLES last_update, now, pc, op, args, ret, fetched

vars == <<last_update, now, pc, op, args, ret, fetched>>

-----------------------------------------------------------------------------
(* Natural numbers of any size: digits in base 2^15, least significant     *)
(* first, no leading zero digit; <<>> is 0.                                 *)

Base == 32768

RECURSIVE Pow2(_)
Pow2(k) == IF k = 0 THEN 1 ELSE 2 * Pow2(k - 1)

RECURSIVE BitLen(_)
BitLen(i) == IF i = 0 THEN 0 ELSE 1 + BitLen(i \div 2)

RECURSIVE NatOf(_)
NatOf(i) == IF i = 0 THEN <<>> ELSE <<i % Base>> \o NatOf(i \div Base)

Digit(a, i) == IF i <= Len(a) THEN a[i] ELSE 0

RECURSIVE Trim(_)
Trim(a) ==
    IF a = <<>> THEN a
    ELSE IF a[Len(a)] = 0 THEN Trim(SubSeq(a, 1, Len(a) - 1)) ELSE a

RECURSIVE Zeros(_)
Zeros(k) == IF k = 0 THEN <<>> ELSE <<0>> \o Zeros(k - 1)

RECURSIVE CmpFrom(_, _, _)
CmpFrom(a, b, i) ==
    IF i = 0 THEN 0
    ELSE IF a[i] # b[i] THEN (IF a[i] < b[i] THEN -1 ELSE 1)
    ELSE CmpFrom(a, b, i - 1)

\* -1, 0 or 1 as a < b, a = b or a > b
NCmp(a, b) ==
    IF Len(a) # Len(b) THEN (IF Len(a) < Len(b) THEN -1 ELSE 1)
    ELSE CmpFrom(a, b, Len(a))

\* one more digit of a sum or product; the carry goes to the next digit
Carry(sum, acc) == [c |-> sum \div Base, acc |-> Append(acc, sum % Base)]

\* st: the digits found so far and the carry
RECURSIVE AddFrom(_, _, _)
AddFrom(a, b, st) ==
    IF Len(st.acc) >= Len(a) /\ Len(st.acc) >= Len(b)
    THEN (IF st.c = 0 THEN st.acc ELSE Append(st.acc, st.c))
    ELSE AddFrom(a, b, Carry(Digit(a, Len(st.acc) + 1) + Digit(b, Len(st.acc) + 1) + st.c,
                             st.acc))

NAdd(a, b) == Trim(AddFrom(a, b, [c |-> 0, acc |-> <<>>]))

Borrow(diff, acc) == [c |-> IF diff < 0 THEN 1 ELSE 0, acc |-> Append(acc, diff % Base)]

RECURSIVE SubFrom(_, _, _)
SubFrom(a, b, st) ==
    IF Len(st.acc) >= Len(a) THEN st.acc
    ELSE SubFrom(a, b, Borrow(a[Len(st.acc) + 1] - Digit(b, Len(st.acc) + 1) - st.c,
                              st.acc))

\* a - b for a >= b
NSub(a, b) == Trim(SubFrom(a, b, [c |-> 0, acc |-> <<>>]))

RECURSIVE MulSmallFrom(_, _, _)
MulSmallFrom(a, k, st) ==
    IF Len(st.acc) >= Len(a) THEN (IF st.c = 0 THEN st.acc ELSE Append(st.acc, st.c))
    ELSE MulSmallFrom(a, k, Carry(a[Len(st.acc) + 1] * k + st.c, st.acc))

\* a * k for 0 <= k <= Base
NMulSmall(a, k) == Trim(MulSmallFrom(a, k, [c |-> 0, acc |-> <<>>]))

\* st: the digits of b used so far and the sum of their products
RECURSIVE MulFrom(_, _, _)
MulFrom(a, b, st) ==
    IF st.i >= Len(b) THEN st.acc
    ELSE MulFrom(a, b, [i |-> st.i + 1,
                        acc |-> NAdd(st.acc,
                                     Trim(Zeros(st.i) \o NMulSmall(a, b[st.i + 1])))])

NMul(a, b) == MulFrom(a, b, [i |-> 0, acc |-> <<>>])

ShortDigit(cur, k, q) == [r |-> cur % k, q |-> <<cur \div k>> \o q]

\* st: the quotient digits found so far, from the top, and the remainder
RECURSIVE DivSmallFrom(_, _, _)
DivSmallFrom(a, k, st) ==
    IF Len(st.q) >= Len(a) THEN [q |-> Trim(st.q), r |-> st.r]
    ELSE DivSmallFrom(a, k, ShortDigit(st.r * Base + a[Len(a) - Len(st.q)], k, st.q))

\* quotient and remainder of a by k, 0 < k <= Base
NDivSmall(a, k) == DivSmallFrom(a, k, [q |-> <<>>, r |-> 0])

\* a * 2^s
NShl(a, s) ==
    IF a = <<>> THEN a ELSE Zeros(s \div 15) \o NMulSmall(a, Pow2(s % 15))

\* floor(a / 2^s)
NShr(a, s) ==
    IF s \div 15 >= Len(a) THEN <<>>
    ELSE NDivSmall(SubSeq(a, (s \div 15) + 1, Len(a)), Pow2(s % 15)).q

\* number of bits of a
NBits(a) == IF a = <<>> THEN 0 ELSE 15 * (Len(a) - 1) + BitLen(a[Len(a)])

\* bit i of a (bit 0 is the lowest)
NBit(a, i) == (Digit(a, (i \div 15) + 1) \div Pow2(i % 15)) % 2

\* the s lowest bits of a are all 0
NLowZero(a, s) ==
    /\ \A j \in 1..(s \div 15) : Digit(a, j) = 0
    /\ Digit(a, (s \div 15) + 1) % Pow2(s % 15) = 0

Min(i, j) == IF i < j THEN i ELSE j
Max(i, j) == IF i > j THEN i ELSE j

\* the digit q <= guess with v * q <= r, given that it is at most 2 below guess
RECURSIVE QDigit(_, _, _)
QDigit(r, v, guess) ==
    IF NCmp(NMulSmall(v, guess), r) > 0 THEN QDigit(r, v, guess - 1) ELSE guess

QGuess(r, v) ==
    Min(Base - 1,
        (Digit(r, Len(v) + 1) * Base + Digit(r, Len(v))) \div v[Len(v)])

DivStep(r, v, acc, qd) == [r |-> NSub(r, NMulSmall(v, qd)), q |-> <<qd>> \o acc]

DivDigit(r, v, acc) == DivStep(r, v, acc, QDigit(r, v, QGuess(r, v)))

\* long division of u by v, whose top digit has its top bit set
RECURSIVE DivFrom(_, _, _)
DivFrom(u, v, st) ==
    IF Len(st.q) >= Len(u) THEN st
    ELSE DivFrom(u, v, DivDigit(Trim(<<u[Len(u) - Len(st.q)]>> \o st.r), v, st.q))

Unshifted(st, sh) == [q |-> Trim(st.q), r |-> NShr(st.r, sh)]

DivBy(a, b, sh) ==
    Unshifted(DivFrom(NShl(a, sh), NShl(b, sh), [q |-> <<>>, r |-> <<>>]), sh)

NatRemainder(st) == [q |-> st.q, r |-> NatOf(st.r)]

\* quotient and remainder of a by b > 0
NDivMod(a, b) ==
    IF Len(b) = 1 THEN NatRemainder(NDivSmall(a, b[1]))
    ELSE DivBy(a, b, 15 - BitLen(b[Len(b)]))

-----------------------------------------------------------------------------
(* Python floats: IEEE-754 binary64.  A finite float is                     *)
(* sg * m * 2^x with m = 0 (and x = 0) or 2^52 <= m < 2^53.                 *)

MantBits == 53

PyNone == [t |-> "none"]
Raise == [t |-> "raise"]
NaN == [t |-> "nan"]
PInf == [t |-> "inf", sg |-> 1]
NInf == [t |-> "inf", sg |-> -1]
Inf(sg) == [t |-> "inf", sg |-> sg]
Str(s) == [t |-> "str", s |-> s]
NA == Str("N/A")

Abs(i) == IF i < 0 THEN -i ELSE i

Dbl(sg, m, x) == [t |-> "num", sg |-> sg, m |-> m, x |-> x]
Zero == Dbl(1, <<>>, 0)
NegZero == Dbl(-1, <<>>, 0)

\* the exponents x of the finite floats m * 2^x: below 2^-1022 the floats are
\* the multiples of 2^MinExp (m < 2^52 there)
MaxExp == 971
MinExp == -1074

Finite(sg, m, x) ==
    IF x > MaxExp THEN Inf(sg)
    ELSE IF m = <<>> THEN Dbl(sg, <<>>, 0)
    ELSE Dbl(sg, m, x)

\* q * 2^x, q of at most 53 bits, rounded up by one unit when up
Carried(sg, q, x, up) ==
    IF ~up THEN Finite(sg, q, x)
    ELSE IF NBits(NAdd(q, <<1>>)) > MantBits
         THEN Finite(sg, NShr(NAdd(q, <<1>>), 1), x + 1)
         ELSE Finite(sg, NAdd(q, <<1>>), x)

\* the float nearest to sg * n * 2^x (to sg * (n + e) * 2^x for some
\* 0 < e < 1 when sticky), ties to the even mantissa; s is the number of
\* low bits of n that the float cannot hold
RoundBits(sg, n, x, sticky, s) ==
    IF s <= 0 THEN Finite(sg, NShl(n, -s), x + s)
    ELSE Carried(sg, NShr(n, s), x + s,
                 NBit(n, s - 1) = 1
                 /\ (sticky \/ ~NLowZero(n, s - 1) \/ NBit(n, s) = 1))

Round(sg, n, x, sticky) ==
    IF n = <<>> THEN Dbl(sg, <<>>, 0)
    ELSE RoundBits(sg, n, x, sticky, Max(NBits(n) - MantBits, MinExp - x))

RoundDiv(sg, st, x) == Round(sg, st.q, x, st.r # <<>>)

\* the float nearest to sg * (n / d) * 2^x for naturals n and d > 0: the
\* quotient is taken with at least 60 bits
ScaledQuotient(sg, n, d, x, k) == RoundDiv(sg, NDivMod(NShl(n, k), d), x - k)
Quotient(sg, n, d, x) ==
    ScaledQuotient(sg, n, d, x, Max(0, 60 + NBits(d) - NBits(n)))

\* the float nearest to (i / d) * 2^x for integers i and d > 0
Binary(i, d, x) == Quotient(IF i < 0 THEN -1 ELSE 1, NatOf(Abs(i)), NatOf(d), x)

\* the float nearest to i / d for integers i and d > 0
F(i, d) == Binary(i, d, 0)

\* the float i * 2^x for an integer i # 0: i has fewer than 53 bits, so that nothing
\* is rounded
Exact(i, x) ==
    Dbl(IF i < 0 THEN -1 ELSE 1, NShl(NatOf(Abs(i)), MantBits - BitLen(Abs(i))),
        x + BitLen(Abs(i)) - MantBits)

IsFloat(v) == v.t \in {"num", "inf", "nan"}
IsZero(v) == v.t = "num" /\ v.m = <<>>
Neg(v) == IF v.t = "nan" THEN v ELSE [v EXCEPT !.sg = -v.sg]

\* -1, 0, 1 as |a| < |b|, |a| = |b|, |a| > |b| for finite a and b
MagCmp(a, b) ==
    IF a.m = <<>> \/ b.m = <<>>
    THEN (IF a.m = b.m THEN 0 ELSE IF a.m = <<>> THEN -1 ELSE 1)
    ELSE IF a.x # b.x THEN (IF a.x < b.x THEN -1 ELSE 1)
    ELSE NCmp(a.m, b.m)

\* -1, 0, 1 as a < b, a = b, a > b for finite a and b (-0.0 = 0.0)
NumCmp(a, b) ==
    IF a.m = <<>> /\ b.m = <<>> THEN 0
    ELSE IF a.m = <<>> THEN -b.sg
    ELSE IF b.m = <<>> THEN a.sg
    ELSE IF a.sg # b.sg THEN a.sg
    ELSE a.sg * MagCmp(a, b)

\* a < b and a <= b on floats; every comparison with nan is false
FLt(a, b) ==
    CASE a.t = "nan" \/ b.t = "nan" -> FALSE
      [] a.t = "inf" -> a.sg = -1 /\ ~(b.t = "inf" /\ b.sg = -1)
      [] b.t = "inf" -> b.sg = 1
      [] OTHER -> NumCmp(a, b) < 0
FLe(a, b) ==
    CASE a.t = "nan" \/ b.t = "nan" -> FALSE
      [] a.t = "inf" -> a.sg = -1 \/ (b.t = "inf" /\ b.sg = 1)
      [] b.t = "inf" -> b.sg = 1
      [] OTHER -> NumCmp(a, b) <= 0
FGt(a, b) == FLt(b, a)
FGe(a, b) == FLe(b, a)

\* big + small for finite non-zero floats with |big| >= |small|: beyond 60
\* binary places the smaller one cannot change the rounded sum
SumAligned(sg, big, small, same) ==
    Round(sg,
          IF same THEN NAdd(NShl(big.m, big.x - small.x), small.m)
          ELSE NSub(NShl(big.m, big.x - small.x), small.m),
          small.x, FALSE)

SumOrdered(big, small) ==
    IF big.x - small.x > 60 THEN big
    ELSE SumAligned(big.sg, big, small, big.sg = small.sg)

\* a + b in IEEE arithmetic
FAdd(a, b) ==
    CASE a.t = "nan" \/ b.t = "nan" -> NaN
      [] a.t = "inf" /\ b.t = "inf" -> IF a.sg = b.sg THEN a ELSE NaN
      [] a.t = "inf" -> a
      [] b.t = "inf" -> b
      [] a.m = <<>> /\ b.m = <<>> -> IF a.sg = -1 /\ b.sg = -1 THEN NegZero ELSE Zero
      [] a.m = <<>> -> b
      [] b.m = <<>> -> a
      [] a.sg # b.sg /\ MagCmp(a, b) = 0 -> Zero
      [] OTHER -> SumOrdered(IF MagCmp(a, b) >= 0 THEN a ELSE b,
                             IF MagCmp(a, b) >= 0 THEN b ELSE a)

\* a - b in IEEE arithmetic
FSub(a, b) == FAdd(a, Neg(b))

\* a * b in IEEE arithmetic
FMul(a, b) ==
    CASE a.t = "nan" \/ b.t = "nan" -> NaN
      [] a.t = "inf" \/ b.t = "inf" ->
            IF IsZero(a) \/ IsZero(b) THEN NaN ELSE Inf(a.sg * b.sg)
      [] OTHER -> Round(a.sg * b.sg, NMul(a.m, b.m), a.x + b.x, FALSE)

\* a / b for a finite non-zero b, and for the infinities
FQuot(a, b) ==
    CASE a.t = "nan" \/ b.t = "nan" -> NaN
      [] a.t = "inf" /\ b.t = "inf" -> NaN
      [] a.t = "inf" -> Inf(a.sg * b.sg)
      [] b.t = "inf" -> Dbl(a.sg * b.sg, <<>>, 0)
      [] OTHER -> Quotient(a.sg * b.sg, a.m, b.m, a.x - b.x)

\* a / 0.0 on numpy.float64 scalars: inf or nan (and a warning)
NpZeroDiv(a, b) == IF a.t = "nan" \/ IsZero(a) THEN NaN ELSE Inf(a.sg * b.sg)

\* a / b on numpy.float64 scalars
NpDiv(a, b) == IF IsZero(b) THEN NpZeroDiv(a, b) ELSE FQuot(a, b)

Hundred == Exact(100, 0)

-----------------------------------------------------------------------------
(* str.format of a float: f"{x:.1f}", f"{x:.2f}", f"{x:,.2f}" *)

Pow10(k) == IF k = 0 THEN 1 ELSE IF k = 1 THEN 10 ELSE 100

Pad(i, k) ==
    IF k = 1 THEN ToString(i)
    ELSE IF i < 10 THEN "0" \o ToString(i) ELSE ToString(i)

Pad3(i) ==
    IF i < 10 THEN "00" \o ToString(i)
    ELSE IF i < 100 THEN "0" \o ToString(i) ELSE ToString(i)

GroupOf(st, sep, rest) == rest \o sep \o Pad3(st.r)

\* the decimal digits of a natural, in groups of three joined by sep
RECURSIVE NatText(_, _)
NatText(a, sep) ==
    IF Len(a) = 0 THEN "0"
    ELSE IF Len(a) = 1 /\ a[1] < 1000 THEN ToString(a[1])
    ELSE GroupOf(NDivSmall(a, 1000), sep, NatText(NDivSmall(a, 1000).q, sep))

\* n / 2^s rounded to a natural, ties to even
RoundHalfEven(n, s) ==
    IF s <= 0 THEN NShl(n, -s)
    ELSE IF NBit(n, s - 1) = 1 /\ (~NLowZero(n, s - 1) \/ NBit(n, s) = 1)
         THEN NAdd(NShr(n, s), <<1>>)
         ELSE NShr(n, s)

\* |v| * 10^k rounded to a natural: the decimal expansion of a float is
\* finite, so the rounding is that of its exact value
Scaled(v, k) == RoundHalfEven(NMulSmall(v.m, Pow10(k)), -v.x)

DigitsOf(st, k, sep) == NatText(st.q, sep) \o "." \o Pad(st.r, k)

\* the text of float v with k decimals; comma: the "," thousands option
Digits(sg, s, k, comma) ==
    (IF sg = -1 THEN "-" ELSE "")
    \o DigitsOf(NDivSmall(s, Pow10(k)), k, IF comma THEN "," ELSE "")

Fixed(v, k, comma) ==
    CASE v.t = "nan" -> "nan"
      [] v.t = "inf" -> IF v.sg = 1 THEN "inf" ELSE "-inf"
      [] OTHER -> Digits(v.sg, Scaled(v, k), k, comma)

-----------------------------------------------------------------------------
(* Text: Python str values are TLA+ strings of ASCII characters; the        *)
(* character at position i of s is SubSeq(s, i, i).                         *)

Lowercase == "abcdefghijklmnopqrstuvwxyz"
Uppercase == "ABCDEFGHIJKLMNOPQRSTUVWXYZ"
DecDigits == "0123456789"
HexDigits == "0123456789ABCDEF"
\* the characters of codes 32 to 95 and 97 to 126, in order (a TLA+ string cannot
\* hold the character of code 96)
Printable == " !\"#$%&'()*+,-./0123456789:;<=>?@ABCDEFGHIJKLMNOPQRSTUVWXYZ[\\]^_"
PrintableHigh == "abcdefghijklmnopqrstuvwxyz{|}~"

Char(s, i) == SubSeq(s, i, i)
CharsOf(s) == { SubSeq(s, i, i) : i \in 1..Len(s) }

Lowers == CharsOf(Lowercase)
Uppers == CharsOf(Uppercase)
Letters == Lowers \cup Uppers
DigitChars == CharsOf(DecDigits)

\* the least of a set of indexes, or 0 when there is none
FirstIndex(hits) ==
    IF hits = {} THEN 0 ELSE CHOOSE i \in hits : \A j \in hits : i <= j

\* s.find(c, start) for a character c, counting positions from 1; 0 when absent
Find(s, c, start) == FirstIndex({ i \in start..Len(s) : SubSeq(s, i, i) = c })
Contains(s, c) == \E i \in 1..Len(s) : SubSeq(s, i, i) = c

\* ord(c)
Ord(c) ==
    CASE c = "\t" -> 9
      [] c = "\n" -> 10
      [] c = "\f" -> 12
      [] c = "\r" -> 13
      [] c \in Lowers \cup {"{", "|", "}", "~"} -> 96 + Find(PrintableHigh, c, 1)
      [] OTHER -> 31 + Find(Printable, c, 1)

UpperChar(c) == IF c \in Lowers THEN Char(Uppercase, Find(Lowercase, c, 1)) ELSE c
LowerChar(c) == IF c \in Uppers THEN Char(Lowercase, Find(Uppercase, c, 1)) ELSE c

\* the middle of the positions lo..hi: a string is rebuilt half by half
Mid(lo, hi) == (lo + hi) \div 2

RECURSIVE UpperRange(_, _, _)
UpperRange(s, lo, hi) ==
    IF lo > hi THEN ""
    ELSE IF lo = hi THEN UpperChar(Char(s, lo))
    ELSE UpperRange(s, lo, Mid(lo, hi)) \o UpperRange(s, Mid(lo, hi) + 1, hi)
str_upper(s) == UpperRange(s, 1, Len(s))

RECURSIVE LowerRange(_, _, _)
LowerRange(s, lo, hi) ==
    IF lo > hi THEN ""
    ELSE IF lo = hi THEN LowerChar(Char(s, lo))
    ELSE LowerRange(s, lo, Mid(lo, hi)) \o LowerRange(s, Mid(lo, hi) + 1, hi)
str_lower(s) == LowerRange(s, 1, Len(s))

\* str.title(): a letter that follows a letter is lowered, any other letter raised
TitleChar(s, i) ==
    IF i > 1 /\ Char(s, i - 1) \in Letters THEN LowerChar(Char(s, i))
    ELSE UpperChar(Char(s, i))

RECURSIVE TitleRange(_, _, _)
TitleRange(s, lo, hi) ==
    IF lo > hi THEN ""
    ELSE IF lo = hi THEN TitleChar(s, lo)
    ELSE TitleRange(s, lo, Mid(lo, hi)) \o TitleRange(s, Mid(lo, hi) + 1, hi)
str_title(s) == TitleRange(s, 1, Len(s))

\* s.replace(old, new) for a character old
RECURSIVE ReplaceRange(_, _, _, _, _)
ReplaceRange(s, old, new, lo, hi) ==
    IF lo > hi THEN ""
    ELSE IF lo = hi THEN (IF Char(s, lo) = old THEN new ELSE Char(s, lo))
    ELSE ReplaceRange(s, old, new, lo, Mid(lo, hi))
         \o ReplaceRange(s, old, new, Mid(lo, hi) + 1, hi)
Replace(s, old, new) == ReplaceRange(s, old, new, 1, Len(s))

\* s.replace('-', ' ')
ReplaceDash(s) == Replace(s, "-", " ")

\* s[:i - 1] for a position i counted from 1, all of s when i = 0
Before(s, i) == IF i = 0 THEN s ELSE SubSeq(s, 1, i - 1)
\* s[i:] for a position i counted from 1
After(s, i) == SubSeq(s, i + 1, Len(s))

\* s.split('.')[0]
BeforeDot(s) == Before(s, Find(s, ".", 1))

\* s.split(c) for a character c
RECURSIVE SplitFrom(_, _, _)
SplitFrom(s, c, start) ==
    IF Find(s, c, start) = 0 THEN << SubSeq(s, start, Len(s)) >>
    ELSE << SubSeq(s, start, Find(s, c, start) - 1) >> \o SplitFrom(s, c, Find(s, c, start) + 1)
Split(s, c) == SplitFrom(s, c, 1)

StartsWith(s, prefix) == Len(s) >= Len(prefix) /\ SubSeq(s, 1, Len(prefix)) = prefix
EndsWith(s, suffix) ==
    Len(s) >= Len(suffix) /\ SubSeq(s, Len(s) - Len(suffix) + 1, Len(s)) = suffix

\* the white space that can be written in a string
Blank == {" ", "\t", "\n", "\r", "\f"}
\* s.lstrip(chars) and s.rstrip(chars)
Kept(s, chars) == { i \in 1..Len(s) : Char(s, i) \notin chars }
LastIndex(hits) ==
    IF hits = {} THEN 0 ELSE CHOOSE i \in hits : \A j \in hits : i >= j
LStrip(s, chars) ==
    IF Kept(s, chars) = {} THEN "" ELSE SubSeq(s, FirstIndex(Kept(s, chars)), Len(s))
RStrip(s, chars) == SubSeq(s, 1, LastIndex(Kept(s, chars)))

\* urllib.parse.quote(s): letters, digits, "_.-~" and the safe "/" are kept, every
\* other character becomes "%" and the two hexadecimal digits of its code
QuoteSafe == Letters \cup DigitChars \cup {"_", ".", "-", "~", "/"}
QuoteChar(c) ==
    IF c \in QuoteSafe THEN c
    ELSE "%" \o Char(HexDigits, (Ord(c) \div 16) + 1) \o Char(HexDigits, (Ord(c) % 16) + 1)

RECURSIVE QuoteRange(_, _, _)
QuoteRange(s, lo, hi) ==
    IF lo > hi THEN ""
    ELSE IF lo = hi THEN QuoteChar(Char(s, lo))
    ELSE QuoteRange(s, lo, Mid(lo, hi)) \o QuoteRange(s, Mid(lo, hi) + 1, hi)
quote(s) == QuoteRange(s, 1, Len(s))

\* int(s) for a string of decimal digits
RECURSIVE DecValue(_)
DecValue(s) ==
    IF s = "" THEN 0
    ELSE 10 * DecValue(SubSeq(s, 1, Len(s) - 1)) + Ord(Char(s, Len(s))) - 48

AllIn(s, chars) == \A i \in 1..Len(s) : SubSeq(s, i, i) \in chars

\* ipaddress.IPv4Address._parse_octet accepts the string
IsOctet(s) ==
    /\ s # ""
    /\ AllIn(s, DigitChars)
    /\ Len(s) <= 3
    /\ (s = "0" \/ Char(s, 1) # "0")
    /\ DecValue(s) <= 255

\* ipaddress.IPv4Address(s) is an address
FourOctets(octets) == Len(octets) = 4 /\ \A i \in 1..4 : IsOctet(octets[i])
IsIPv4(s) == s # "" /\ ~Contains(s, "/") /\ FourOctets(Split(s, "."))

\* ipaddress.IPv6Address._parse_hextet accepts the string
HexChars == DigitChars \cup CharsOf("abcdefABCDEF")
IsHextet(s) == s # "" /\ AllIn(s, HexChars) /\ Len(s) <= 4

\* the '::' of the parts, by position and disregarding the endpoints
Skips(parts) == { i \in 2..(Len(parts) - 1) : parts[i] = "" }

\* lines "if skip_index is not None" of _ip_int_from_string: parts_hi and parts_lo
\* hextets around the '::' at position skip
WithSkip(parts, hi, lo) ==
    /\ (parts[1] = "" => hi - 1 = 0)
    /\ (parts[Len(parts)] = "" => lo - 1 = 0)
    /\ 8 - ((IF parts[1] = "" THEN hi - 1 ELSE hi)
            + (IF parts[Len(parts)] = "" THEN lo - 1 ELSE lo)) >= 1
    /\ \A i \in 1..(IF parts[1] = "" THEN hi - 1 ELSE hi) : IsHextet(parts[i])
    /\ \A i \in 1..(IF parts[Len(parts)] = "" THEN lo - 1 ELSE lo) :
           IsHextet(parts[Len(parts) + 1 - i])

\* _ip_int_from_string once an IPv4-style suffix has become two hextets
HextetParts(parts) ==
    /\ Len(parts) <= 9
    /\ Cardinality(Skips(parts)) <= 1
    /\ IF Skips(parts) # {}
       THEN WithSkip(parts, FirstIndex(Skips(parts)) - 1,
                     Len(parts) - FirstIndex(Skips(parts)))
       ELSE /\ Len(parts) = 8
            /\ \A i \in 1..8 : IsHextet(parts[i])

\* ipaddress.IPv6Address._ip_int_from_string(s) returns
IPv6Parts(parts) ==
    /\ Len(parts) >= 3
    /\ IF Contains(parts[Len(parts)], ".")
       THEN /\ IsIPv4(parts[Len(parts)])
            /\ HextetParts(SubSeq(parts, 1, Len(parts) - 1) \o <<"0", "0">>)
       ELSE HextetParts(parts)

\* ipaddress.IPv6Address(s) is an address: the part before a "%" is parsed, the
\* scope id after it must not be empty nor hold another "%"
IsIPv6(s) ==
    /\ ~Contains(s, "/")
    /\ Contains(s, "%") =>
           /\ After(s, Find(s, "%", 1)) # ""
           /\ ~Contains(After(s, Find(s, "%", 1)), "%")
    /\ Before(s, Find(s, "%", 1)) # ""
    /\ IPv6Parts(Split(Before(s, Find(s, "%", 1)), ":"))

\* re.match(r"\Av[a-fA-F0-9]+\..+\Z", s) for a string s that starts with "v"
IsIPvFuture(s) ==
    /\ Find(s, ".", 1) >= 3
    /\ AllIn(SubSeq(s, 2, Find(s, ".", 1) - 1), HexChars)
    /\ Len(s) > Find(s, ".", 1)

\* urllib.parse._check_bracketed_host(hostname) returns (it raises otherwise)
BracketedHostOk(hostname) ==
    IF StartsWith(hostname, "v") THEN IsIPvFuture(hostname)
    ELSE ~IsIPv4(hostname) /\ IsIPv6(hostname)

\* netloc.partition('[')[2].partition(']')[0]
BracketedHost(netloc) ==
    Before(After(netloc, Find(netloc, "[", 1)),
           Find(After(netloc, Find(netloc, "[", 1)), "]", 1))

\* the replace loop over _UNSAFE_URL_BYTES_TO_REMOVE
RemoveUnsafe(s) == Replace(Replace(Replace(s, "\t", ""), "\r", ""), "\n", "")

\* urllib.parse.urlparse(url): [scheme, netloc], or Raise for ValueError
SchemeChars == Letters \cup DigitChars \cup {"+", "-", "."}

UrlResult(scheme, netloc) ==
    IF Contains(netloc, "[") # Contains(netloc, "]") THEN Raise
    ELSE IF Contains(netloc, "[") /\ ~BracketedHostOk(BracketedHost(netloc)) THEN Raise
    ELSE [t |-> "url", scheme |-> scheme, netloc |-> netloc]

\* _splitnetloc(url, 2): the network location ends at the first "/", "?" or "#"
NetlocEnd(url) ==
    FirstIndex({ i \in 3..Len(url) : SubSeq(url, i, i) \in {"/", "?", "#"} })

NetlocOf(url, end) == SubSeq(url, 3, IF end = 0 THEN Len(url) ELSE end - 1)

UrlAfterScheme(scheme, rest) ==
    IF SubSeq(rest, 1, Min(2, Len(rest))) = "//"
    THEN UrlResult(scheme, NetlocOf(rest, NetlocEnd(rest)))
    ELSE [t |-> "url", scheme |-> scheme, netloc |-> ""]

UrlScheme(url, i) ==
    IF i > 1 /\ Char(url, 1) \in Letters /\ AllIn(SubSeq(url, 1, i - 1), SchemeChars)
    THEN UrlAfterScheme(str_lower(SubSeq(url, 1, i - 1)), After(url, i))
    ELSE UrlAfterScheme("", url)

urlsplit(url) == UrlScheme(url, Find(url, ":", 1))
urlparse(url) == urlsplit(RemoveUnsafe(LStrip(url, Blank)))

-----------------------------------------------------------------------------
(* float(x) *)

\* decimal digits, with single underscores between digits
IsDigitGroup(s) ==
    /\ s # ""
    /\ AllIn(s, DigitChars \cup {"_"})
    /\ Char(s, 1) # "_"
    /\ Char(s, Len(s)) # "_"
    /\ \A i \in 1..(Len(s) - 1) : ~(Char(s, i) = "_" /\ Char(s, i + 1) = "_")

\* the natural number written by the digits of s; st: the digits read and their number
RECURSIVE DecNatFrom(_, _)
DecNatFrom(s, st) ==
    IF st.i >= Len(s) THEN st.n
    ELSE DecNatFrom(s, [i |-> st.i + 1,
                        n |-> IF Char(s, st.i + 1) = "_" THEN st.n
                              ELSE NAdd(NMulSmall(st.n, 10),
                                        NatOf(Ord(Char(s, st.i + 1)) - 48))])
DecNat(s) == DecNatFrom(s, [i |-> 0, n |-> <<>>])

\* n * 10^k
RECURSIVE TimesPow10(_, _)
TimesPow10(n, k) ==
    IF n = <<>> THEN n
    ELSE IF k >= 4 THEN TimesPow10(NMulSmall(n, 10000), k - 4)
    ELSE IF k >= 1 THEN TimesPow10(NMulSmall(n, 10), k - 1)
    ELSE n

\* the float nearest to sg * n * 10^e for a natural n of the given number of
\* decimal digits: from 10^309 on it is an infinity, below 10^-324 it is zero
Decimal(sg, n, e, digits) ==
    IF n = <<>> THEN Dbl(sg, <<>>, 0)
    ELSE IF e >= 309 THEN Inf(sg)
    ELSE IF e + digits <= -324 THEN Dbl(sg, <<>>, 0)
    ELSE IF e >= 0 THEN Round(sg, TimesPow10(n, e), 0, FALSE)
    ELSE Quotient(sg, n, TimesPow10(<<1>>, -e), 0)

Unsigned(s) == IF s # "" /\ Char(s, 1) \in {"+", "-"} THEN After(s, 1) ELSE s
SignOf(s) == IF s # "" /\ Char(s, 1) = "-" THEN -1 ELSE 1

ExpIndex(s) == FirstIndex({ i \in 1..Len(s) : SubSeq(s, i, i) \in {"e", "E"} })
MantissaOf(s) == Before(s, ExpIndex(s))
ExponentOf(s) == IF ExpIndex(s) = 0 THEN "0" ELSE After(s, ExpIndex(s))
WholeOf(m) == Before(m, Find(m, ".", 1))
FractionOf(m) == IF Find(m, ".", 1) = 0 THEN "" ELSE After(m, Find(m, ".", 1))

IsMantissa(ip, fp) ==
    /\ ip = "" \/ IsDigitGroup(ip)
    /\ fp = "" \/ IsDigitGroup(fp)
    /\ ip # "" \/ fp # ""

\* int(s) for the digits of an exponent; past six digits the float is an infinity
\* or zero whatever the exact exponent
ExpValue(s) ==
    IF Len(LStrip(s, {"0"})) > 6 THEN 1000000 ELSE DecValue(LStrip(s, {"0"}))

DecimalOf(sg, ip, fp, e) ==
    IF IsMantissa(ip, fp) /\ IsDigitGroup(Unsigned(e))
    THEN Decimal(sg, DecNat(ip \o fp),
                 SignOf(e) * ExpValue(Replace(Unsigned(e), "_", ""))
                 - Len(Replace(fp, "_", "")),
                 Len(Replace(ip \o fp, "_", "")))
    ELSE Raise

\* float(s) of the text s without its sign
FloatOfBody(sg, body) ==
    IF str_lower(body) \in {"inf", "infinity"} THEN Inf(sg)
    ELSE IF str_lower(body) = "nan" THEN NaN
    ELSE DecimalOf(sg, WholeOf(MantissaOf(body)), FractionOf(MantissaOf(body)),
                   ExponentOf(body))

FloatOfText(s) == FloatOfBody(SignOf(s), Unsigned(s))

\* float(x): the float, or Raise for TypeError / ValueError
float(x) ==
    CASE IsFloat(x) -> x
      [] x.t = "str" -> FloatOfText(RStrip(LStrip(x.s, Blank), Blank))
      [] OTHER -> Raise

-----------------------------------------------------------------------------
(* StockAnalysisAgent: the helpers *)

moneycontrol_base == "https://www.moneycontrol.com/stocks/cptmarket/compsearchnew.php"
indian_ticker_suffixes == {".NS", ".BO"}

\* s.endswith(suffix) for one of the suffixes
EndsWithSuffix(s) == \E suffix \in indian_ticker_suffixes : EndsWith(s, suffix)

_is_indian_stock(ticker) == EndsWithSuffix(str_upper(ticker))

MoneycontrolSearch(search_query) ==
    moneycontrol_base \o "?search_data=" \o search_query
    \o "&topsearch_type=1&search_str=" \o search_query

_get_moneycontrol_url(ticker, company_name) == MoneycontrolSearch(quote(company_name))

\* dict.get(key, default) and dict.get(key) on the provider's attribute bag
Get(info, key, default) == IF key \in DOMAIN info THEN info[key] ELSE default
GetOrNone(info, key) == Get(info, key, PyNone)

_get_company_name(info, ticker) ==
    Get(info, "shortName", str_title(ReplaceDash(BeforeDot(ticker))))

\* lines 48-51, given what urlparse returned or raised
ValidParse(result) ==
    IF result = Raise THEN FALSE
    ELSE /\ result.scheme # ""
         /\ result.netloc # ""
         /\ ~StartsWith(result.netloc, "localhost")

_is_valid_url(url) == ValidParse(urlparse(url))

\* line 59 holds the characters U+00E2 U+201A U+00B9 (a rupee sign decoded with the
\* wrong codec); strings here are ASCII, so the prefix is written "{rupee}"
Rupee == "{rupee}"
Dollar == "$"

\* the literals 1e6, 1e9 and 1e12 of lines 64-69
Million == 1000000
OneMillion == Exact(Million, 0)
OneBillion == Exact(1000 * Million, 0)
OneTrillion == FMul(OneMillion, OneMillion)
Millions(k) == CASE k = 1 -> OneMillion [] k = 2 -> OneBillion [] OTHER -> OneTrillion

\* num >= 1e6, 1e9, 1e12
GeMillions(v, k) == FGe(v, Millions(k))

\* num / 1e6, num / 1e9, num / 1e12
DivMillions(v, k) == FQuot(v, Millions(k))

\* lines 58-70, given float(num) or the exception it raised
FormatFloat(f, is_currency, prefix) ==
    IF f = Raise THEN NA
    ELSE IF ~is_currency THEN Str(Fixed(f, 2, TRUE))
    ELSE IF GeMillions(f, 3) THEN Str(prefix \o Fixed(DivMillions(f, 3), 2, FALSE) \o "T")
    ELSE IF GeMillions(f, 2) THEN Str(prefix \o Fixed(DivMillions(f, 2), 2, FALSE) \o "B")
    ELSE IF GeMillions(f, 1) THEN Str(prefix \o Fixed(DivMillions(f, 1), 2, FALSE) \o "M")
    ELSE Str(prefix \o Fixed(f, 2, TRUE))

_format_number(num, is_currency, is_indian) ==
    IF num = PyNone \/ num = NA THEN NA
    ELSE FormatFloat(float(num), is_currency, IF is_indian THEN Rupee ELSE Dollar)

\* the literals 1.5, 2.5, 3.5 and 4.5 of lines 80-86 are k halves, k = 3, 5, 7, 9
Halves(k) == Exact(k, -1)

\* lines 79-91, given float(score) or the exception it raised
Tier_ExclusiveBounds(f) ==
    IF f = Raise THEN Str("N/A")
    ELSE IF FLt(f, Halves(3)) THEN Str("Strong Buy")
    ELSE IF FLt(f, Halves(5)) THEN Str("Buy")
    ELSE IF FLt(f, Halves(7)) THEN Str("Hold")
    ELSE IF FLt(f, Halves(9)) THEN Str("Sell")
    ELSE Str("Strong Sell")

Tier(f) ==
    IF f = Raise THEN Str("N/A")
    ELSE IF FLe(f, Halves(3)) THEN Str("Strong Buy")
    ELSE IF FLe(f, Halves(5)) THEN Str("Buy")
    ELSE IF FLe(f, Halves(7)) THEN Str("Hold")
    ELSE IF FLe(f, Halves(9)) THEN Str("Sell")
    ELSE Str("Strong Sell")

_get_recommendation(score) ==
    IF score = PyNone THEN Str("N/A") ELSE Tier(float(score))

\* a price history: None, or a frame [t |-> "frame", dtype, close]; dtype is the
\* type of the Close column, "float64" (numpy scalars) or "object" (Python floats)
\* a / b on the scalars of a frame: a zero divisor raises ZeroDivisionError on
\* Python floats
Div(dtype, a, b) ==
    IF ~IsZero(b) THEN FQuot(a, b)
    ELSE IF dtype = "float64" THEN NpZeroDiv(a, b)
    ELSE Raise

\* lines 100-103, given (end - start) / start or the exception it raised
PerformanceText(q) ==
    IF q = Raise THEN Str("N/A")
    ELSE Str(Fixed(FMul(q, Hundred), 2, FALSE) \o "%")

\* lines 98-100
Change(dtype, start, end) == Div(dtype, FSub(end, start), start)

_calculate_performance(history) ==
    IF history = PyNone THEN Str("N/A")
    ELSE IF Len(history.close) < 2 THEN Str("N/A")
    ELSE PerformanceText(Change(history.dtype, history.close[1],
                                history.close[Len(history.close)]))

\* the word follows the sign of the printed percentage
DeltaText_WordFromPercent(diff, q) ==
    Str(Fixed(FMul(q, Hundred), 1, FALSE) \o "% "
        \o (IF FGt(q, Zero) THEN "above" ELSE "below"))

\* line 112, given diff and pct_diff / 100
DeltaText(diff, q) ==
    Str(Fixed(FMul(q, Hundred), 1, FALSE) \o "% "
        \o (IF FGt(diff, Zero) THEN "above" ELSE "below"))

\* lines 110-114, given float(val1) - float(val2) and float(val2)
Delta_NoZeroGuard(diff, f2) == DeltaText(diff, NpDiv(diff, f2))

Delta(diff, f2) == IF IsZero(f2) THEN PyNone ELSE DeltaText(diff, FQuot(diff, f2))

\* lines 110-114, given float(val1) and float(val2) or the exceptions they raised
DeltaOfFloats(f1, f2) ==
    IF f1 = Raise \/ f2 = Raise THEN PyNone ELSE Delta(FSub(f1, f2), f2)

calculate_delta(val1, val2) ==
    IF val1 = PyNone \/ val2 = PyNone \/ val1 = NA \/ val2 = NA THEN PyNone
    ELSE DeltaOfFloats(float(val1), float(val2))

-----------------------------------------------------------------------------
(* The inputs: ticker symbols, provider answers, argument values *)

MaxClock == 2
MaxElapsed == 1
MaxHistory == 3
MaxScore == 6

\* the provider's answer for one ticker: Failure (an exception out of yfinance), or
\* [t |-> "quote", info, history_1y, history_1m, history_5d, history_1d, news]
Failure == [t |-> "failure"]

AAPL == "AAPL"
TATAMOTORS_NS == "TATAMOTORS.NS"
mm_bo == "m&m.bo"
Tickers == {AAPL, TATAMOTORS_NS, mm_bo}

Frame(dtype, close) == [t |-> "frame", dtype |-> dtype, close |-> close]

\* a number of the provider, written <<i, d>> for the decimal i / d or <<i, d, x>>
\* for (i / d) * 2^x, and the float it is read as
Number(n) == Binary(n[1], n[2], IF Len(n) = 3 THEN n[3] ELSE 0)
Floats(numbers) == [k \in DOMAIN numbers |-> Number(numbers[k])]

\* stock.info: the name, the two texts and the numbers
Info(shortName, sector, industry, numbers) ==
    [key \in {"shortName", "sector", "industry"} \cup DOMAIN numbers |->
        CASE key = "shortName" -> shortName
          [] key = "sector" -> Str(sector)
          [] key = "industry" -> Str(industry)
          [] OTHER -> Number(numbers[key])]

\* marketCap is 1005000001.0 and enterpriseValue 2.5e12 (1220703125 * 2^11)
BaseNumbers ==
    [previousClose |-> <<100, 1>>,
     marketCap |-> <<1005000001, 1>>,
     trailingPE |-> <<25, 1>>,
     pegRatio |-> <<3, 2>>,
     forwardPE |-> <<20, 1>>,
     priceToBook |-> <<4, 1>>,
     enterpriseValue |-> <<1220703125, 1, 11>>,
     ebitda |-> <<300000, 1>>,
     debtToEquity |-> <<150, 1>>,
     currentRatio |-> <<12, 10>>,
     returnOnEquity |-> <<15, 100>>,
     fiftyTwoWeekHigh |-> <<120675, 1000>>,
     fiftyTwoWeekLow |-> <<80, 1>>,
     averageVolume |-> <<1500000, 1>>,
     dividendYield |-> <<2, 100>>,
     beta |-> <<11, 10>>,
     recommendationMean |-> <<2, 1>>,
     fullTimeEmployees |-> <<1000, 1>>]

AltNumbers ==
    [previousClose |-> <<50, 1>>,
     marketCap |-> <<123456789, 1>>,
     trailingPE |-> <<-5, 1>>,
     pegRatio |-> <<3, 2>>,
     forwardPE |-> <<16, 1>>,
     priceToBook |-> <<0, 1>>,
     enterpriseValue |-> <<900, 1>>,
     ebitda |-> <<-300000, 1>>,
     debtToEquity |-> <<75, 1>>,
     currentRatio |-> <<2, 1>>,
     returnOnEquity |-> <<-1, 10>>,
     fiftyTwoWeekHigh |-> <<60, 1>>,
     fiftyTwoWeekLow |-> <<2675, 1000>>,
     averageVolume |-> <<999999, 1>>,
     dividendYield |-> <<0, 1>>,
     beta |-> <<9, 10>>,
     recommendationMean |-> <<45, 10>>,
     fullTimeEmployees |-> <<50000, 1>>]

BaseInfo == Info("Acme & Co", "Technology", "Software", BaseNumbers)
AltInfo == Info("Tata Motors", "Automotive", "Auto Manufacturers", AltNumbers)

Item(title, publisher, link) ==
    [t |-> "dict", title |-> title, publisher |-> publisher, link |-> link]
NewsList(items) == [t |-> "list", items |-> items]

Headline == "Q2: results?"
BaseNews == NewsList(<< Item(Headline, "Reuters", "https://example.com/x") >>)

\* the Close column of stock.history(period) for the four periods asked for
Closes(numbers) == [period \in DOMAIN numbers |-> Frame("float64", Floats(numbers[period]))]

Quote(info, history, news) ==
    [t |-> "quote", info |-> info, history_1y |-> history["1y"],
     history_1m |-> history["1mo"], history_5d |-> history["5d"],
     history_1d |-> history["1d"], news |-> news]

Periods == {"1y", "1mo", "5d", "1d"}

BaseCloses ==
    [period \in Periods |->
        CASE period = "1y" -> << <<84, 1>>, <<90, 1>>, <<211, 2>> >>
          [] period = "1mo" -> << <<100, 1>>, <<211, 2>> >>
          [] period = "5d" -> << <<104, 1>>, <<211, 2>> >>
          [] period = "1d" -> << <<211, 2>> >>]

AltCloses ==
    [period \in Periods |->
        CASE period = "1y" -> << <<30, 1>>, <<40, 1>> >>
          [] period = "1mo" -> << <<45, 1>>, <<40, 1>> >>
          [] period = "5d" -> << <<40, 1>> >>
          [] period = "1d" -> << <<40, 1>> >>]

BaseQuote == Quote(BaseInfo, Closes(BaseCloses), BaseNews)
AltQuote == Quote(AltInfo, Closes(AltCloses), NewsList(<<>>))

\* the fundamentals of the claim about omitted fields, and the other keys
FundamentalKeys ==
    {"marketCap", "trailingPE", "pegRatio", "forwardPE", "priceToBook", "enterpriseValue",
     "ebitda", "debtToEquity", "currentRatio", "returnOnEquity", "fiftyTwoWeekHigh",
     "fiftyTwoWeekLow", "averageVolume", "dividendYield", "beta"}
OtherKeys == {"shortName", "previousClose", "recommendationMean", "sector"}

Without(dict, key) == [k \in DOMAIN dict \ {key} |-> dict[k]]
WithInfo(q, key, value) == [q EXCEPT !.info = [q.info EXCEPT ![key] = value]]
WithoutInfo(q, key) == [q EXCEPT !.info = Without(q.info, key)]
WithNews(q, news) == [q EXCEPT !.news = news]

\* the link values a provider item can carry
Links ==
    { "", "/x", "localhost", "localhost:8080", "LOCALHOST:8080", "127.0.0.1",
      "http://localhost/x", "http://localhost:8080/x", "http://LOCALHOST/x",
      "http://127.0.0.1/x", "http://[::1]/x", "http://[::1/x", "http://[1.2.3.4]/x",
      "HTTP://example.com/x", "https://example.com/x", "//example.com/x",
      "http:////localhost", "https://example.com//example.com/x",
      "8080://example.com/x", " https://example.com/x", "mailto:a@b.c" }

GoodItem == Item(Headline, "Reuters", "https://example.com/x")

NewsValues ==
    { [t |-> "noattr"], PyNone, NewsList(<<>>),
      NewsList(<< [t |-> "dict"] >>),
      NewsList(<< Without(GoodItem, "link") >>),
      NewsList(<< GoodItem, Without(Item("Second", "", "/x"), "publisher"), GoodItem,
                  [t |-> "dict", title |-> "Fourth"] >>),
      NewsList(<< GoodItem, [t |-> "notdict"] >>) }
    \cup { NewsList(<< Item(Headline, "Reuters", l) >>) : l \in Links }

\* the two quotes, and those of a comparison with something left out or changed
PairVariants(base, alt) ==
    { base, alt,
      WithInfo(alt, "previousClose", PyNone),
      WithoutInfo(base, "marketCap"),
      WithoutInfo(alt, "trailingPE"),
      WithNews(base, NewsList(<<>>)),
      WithNews(alt, NewsList(<< Without(Item(Headline, "", "http://127.0.0.1/x"),
                                        "publisher") >>)) }

\* a quote with something left out or changed
Variants(q) ==
    { q }
    \cup { WithoutInfo(q, k) : k \in FundamentalKeys \cup OtherKeys }
    \cup { WithNews(q, n) : n \in NewsValues }
    \cup { WithInfo(q, "previousClose", v) : v \in {Zero, PyNone} }
    \cup { WithInfo(q, "marketCap", PyNone),
           [q EXCEPT !.history_1d = Frame("float64", <<>>)] }
    \cup { [q EXCEPT !.history_1y = Frame("float64", Floats(closes))] :
               closes \in { << <<80, 1>> >>, << <<0, 1>>, <<80, 1>> >> } }

\* the answers tried on a single get_stock_data call
Outcomes == { Failure, AltQuote } \cup Variants(BaseQuote)

\* the answers tried on each side of a comparison
PairOutcomes == { Failure } \cup PairVariants(BaseQuote, AltQuote)

\* arguments of the direct calls
DeltaValues ==
    { PyNone, NA, Str("12.34%"), Str("5"), Str(" 2.5e0 "), Str("0.0"), NegZero, NaN, PInf }
    \cup { Number(n) : n \in { <<0, 1>>, <<10, 1>>, <<-10, 1>>, <<3, 1>>, <<25, 2>>,
                               <<1035, 1000>> } }

Scores ==
    { PyNone, NA, Str("Buy"), Str("5"), Str("1.5"), Str(" 2.50 "), Str("nan"), NaN, PInf, NInf }
    \cup { F(k, 20) : k \in -20..(20 * MaxScore) }

Prices == { F(k, 1) : k \in {0, 3, 8, 10} }

RECURSIVE SeqsUpTo(_, _)
SeqsUpTo(S, n) ==
    IF n = 0 THEN {<<>>}
    ELSE LET shorter == SeqsUpTo(S, n - 1)
         IN shorter \cup { Append(s, x) : s \in shorter, x \in S }

Histories ==
    { PyNone } \cup { Frame(dtype, close) : dtype \in {"float64", "object"},
                                             close \in SeqsUpTo(Prices, MaxHistory) }

-----------------------------------------------------------------------------
(* get_stock_data *)

\* lines 140-148: the entry of data['news'] made of one headline
NewsItemOf(title, publisher, link, is_indian) ==
    [title |-> title,
     link |-> IF link = "" \/ ~_is_valid_url(link)
              THEN "https://www.google.com/search?q=" \o quote(title)
              ELSE link,
     publisher |-> publisher,
     is_moneycontrol |-> is_indian]

\* the provider's link is kept for a domestic ticker too
NewsEntry_KeepProviderLink(n, company_name, is_indian, moneycontrol_url) ==
    NewsItemOf(Get(n, "title", company_name \o " News"),
               Get(n, "publisher", IF is_indian THEN "Moneycontrol" ELSE "Market News"),
               Get(n, "link", IF is_indian THEN moneycontrol_url ELSE ""),
               is_indian)

\* lines 136-138: what is read from one provider headline n
NewsEntry(n, company_name, is_indian, moneycontrol_url) ==
    NewsItemOf(Get(n, "title", company_name \o " News"),
               Get(n, "publisher", IF is_indian THEN "Moneycontrol" ELSE "Market News"),
               IF is_indian THEN moneycontrol_url ELSE Get(n, "link", ""),
               is_indian)

\* lines 135-151 on the first three headlines; a headline that is no dict raises
\* inside the loop and the handler empties the list
NewsOfTop(top, company_name, is_indian, moneycontrol_url) ==
    IF \E i \in 1..Len(top) : top[i] = [t |-> "notdict"] THEN <<>>
    ELSE [i \in 1..Len(top) |->
             NewsEntry(top[i], company_name, is_indian, moneycontrol_url)]

\* items[:3]
Top3(items) == SubSeq(items, 1, Min(3, Len(items)))

\* lines 132-151; stock.news is [t |-> "noattr"], None, or [t |-> "list", items]
ProcessNews(news, company_name, is_indian, moneycontrol_url) ==
    IF news.t = "list"
    THEN NewsOfTop(Top3(news.items), company_name, is_indian, moneycontrol_url)
    ELSE <<>>

\* datetime.now().strftime("%Y-%m-%d %H:%M:%S") at clock reading n
Stamp(n) == Str("2025-01-01 00:00:" \o Pad(n, 2))

DataKeys ==
    {"current_price", "prev_close", "day_change_pct", "day_change_abs", "market_cap",
     "pe_ratio", "peg_ratio", "forward_pe", "price_to_book", "enterprise_value", "ebitda",
     "debt_to_equity", "current_ratio", "return_on_equity", "52w_high", "52w_low",
     "avg_volume", "dividend_yield", "beta", "recommendation", "performance_1y",
     "performance_1m", "performance_5d", "news", "company_name", "is_indian", "sector",
     "industry", "employees", "historical_data"}

\* lines 181-183: the history a performance is worked out from
HistoryOf(q, key) ==
    CASE key = "performance_1y" -> q.history_1y
      [] key = "performance_1m" -> q.history_1m
      [] key = "performance_5d" -> q.history_5d

\* the dict built at lines 160-195
DataRecord(q, info, company_name, is_indian, news, current_price, prev_close, change) ==
    [key \in DataKeys |->
        CASE key = "current_price" -> current_price
          [] key = "prev_close" -> prev_close
          [] key = "day_change_pct" -> FMul(change, Hundred)
          [] key = "day_change_abs" -> FSub(current_price, prev_close)
          [] key = "market_cap" -> GetOrNone(info, "marketCap")
          [] key = "pe_ratio" -> GetOrNone(info, "trailingPE")
          [] key = "peg_ratio" -> GetOrNone(info, "pegRatio")
          [] key = "forward_pe" -> GetOrNone(info, "forwardPE")
          [] key = "price_to_book" -> GetOrNone(info, "priceToBook")
          [] key = "enterprise_value" -> GetOrNone(info, "enterpriseValue")
          [] key = "ebitda" -> GetOrNone(info, "ebitda")
          [] key = "debt_to_equity" -> GetOrNone(info, "debtToEquity")
          [] key = "current_ratio" -> GetOrNone(info, "currentRatio")
          [] key = "return_on_equity" -> GetOrNone(info, "returnOnEquity")
          [] key = "52w_high" -> GetOrNone(info, "fiftyTwoWeekHigh")
          [] key = "52w_low" -> GetOrNone(info, "fiftyTwoWeekLow")
          [] key = "avg_volume" -> GetOrNone(info, "averageVolume")
          [] key = "dividend_yield" -> GetOrNone(info, "dividendYield")
          [] key = "beta" -> GetOrNone(info, "beta")
          [] key = "recommendation" ->
                _get_recommendation(GetOrNone(info, "recommendationMean"))
          [] key \in {"performance_1y", "performance_1m", "performance_5d"} ->
                _calculate_performance(HistoryOf(q, key))
          [] key = "news" -> news
          [] key = "company_name" -> company_name
          [] key = "is_indian" -> is_indian
          [] key = "sector" -> Get(info, "sector", NA)
          [] key = "industry" -> Get(info, "industry", NA)
          [] key = "employees" -> Get(info, "fullTimeEmployees", NA)
          [] key = "historical_data" ->
                [y1 |-> q.history_1y, m1 |-> q.history_1m, d5 |-> q.history_5d]]

\* lines 156-197, given (current_price - prev_close) / prev_close or its exception
DataOfChange(q, company_name, is_indian, news, current_price, prev_close, change) ==
    IF change = Raise THEN PyNone
    ELSE DataRecord(q, q.info, company_name, is_indian, news, current_price, prev_close,
                    change)

\* lines 155-197; a prev_close that is no number raises TypeError at line 156
DataOfPrices(q, company_name, is_indian, news, current_price, prev_close) ==
    IF ~IsFloat(prev_close) THEN PyNone
    ELSE DataOfChange(q, company_name, is_indian, news, current_price, prev_close,
                      Change(q.history_1d.dtype, prev_close, current_price))

\* lines 154-197; .iloc[-1] of an empty history raises IndexError
DataOfCloses(q, company_name, is_indian, news, closes) ==
    IF Len(closes) = 0 THEN PyNone
    ELSE DataOfPrices(q, company_name, is_indian, news, closes[Len(closes)],
                      Get(q.info, "previousClose", closes[Len(closes)]))

\* lines 128-197
DataOfQuote(ticker, q, company_name, is_indian) ==
    DataOfCloses(q, company_name, is_indian,
                 ProcessNews(q.news, company_name, is_indian,
                             IF is_indian
                             THEN _get_moneycontrol_url(ticker, company_name)
                             ELSE PyNone),
                 q.history_1d.close)

\* the value get_stock_data(ticker) returns when the provider answers q: the dict,
\* or None when anything inside the try block raises
StockData(ticker, q) ==
    IF q = Failure THEN PyNone
    ELSE DataOfQuote(ticker, q, _get_company_name(q.info, ticker), _is_indian_stock(ticker))

\* lines 196-200: a success stamps self.last_update with the clock reading
Fetched(calls, data, self_last_update, clock) ==
    [calls |-> calls,
     data |-> data,
     now |-> clock,
     last_update |-> IF data = PyNone THEN self_last_update ELSE Stamp(clock)]

\* StockData for every ticker and every answer of the provider, worked out once
StockDataOf ==
    [ticker \in Tickers |-> [q \in Outcomes \cup PairOutcomes |-> StockData(ticker, q)]]

\* get_stock_data as a method: yf.Ticker(ticker) at line 119 is one more call of the
\* provider, and its answers take e clock ticks to come
get_stock_data(calls, self_last_update, clock, ticker, q, e) ==
    Fetched(Append(calls, ticker), StockDataOf[ticker][q], self_last_update, clock + e)

\* stock.history(period=period) of the provider's answer
HistoryFor(q, period) ==
    CASE period = "1y" -> q.history_1y
      [] period = "1mo" -> q.history_1m
      [] period = "5d" -> q.history_5d
      [] period = "1d" -> q.history_1d

\* lines 38-40: None for an empty history, else its Close column under a new index
CloseColumn(hist) == IF Len(hist.close) = 0 THEN PyNone ELSE Frame(hist.dtype, hist.close)

\* the value get_historical_data(ticker, period) returns when the provider answers q:
\* None when the provider raises
HistoricalData(q, period) ==
    IF q = Failure THEN PyNone ELSE CloseColumn(HistoryFor(q, period))

\* get_historical_data as a method: one call of the provider, whose answer takes e
\* clock ticks to come; self.last_update is left as it was
get_historical_data(calls, self_last_update, clock, ticker, period, q, e) ==
    [calls |-> Append(calls, ticker),
     data |-> HistoricalData(q, period),
     now |-> clock + e,
     last_update |-> self_last_update]

-----------------------------------------------------------------------------
(* generate_comparison *)

Metric(name, key, is_currency) == [name |-> name, key |-> key, is_currency |-> is_currency]

metrics ==
    << Metric("Current Price", "current_price", TRUE),
       Metric("Previous Close", "prev_close", TRUE),
       Metric("Day Change (%)", "day_change_pct", FALSE),
       Metric("Market Cap", "market_cap", TRUE),
       Metric("P/E Ratio", "pe_ratio", FALSE),
       Metric("PEG Ratio", "peg_ratio", FALSE),
       Metric("Forward P/E", "forward_pe", FALSE),
       Metric("Price/Book", "price_to_book", FALSE),
       Metric("Enterprise Value", "enterprise_value", TRUE),
       Metric("EBITDA", "ebitda", TRUE),
       Metric("Debt/Equity", "debt_to_equity", FALSE),
       Metric("Current Ratio", "current_ratio", FALSE),
       Metric("ROE", "return_on_equity", FALSE),
       Metric("52W High", "52w_high", TRUE),
       Metric("52W Low", "52w_low", TRUE),
       Metric("Avg Volume", "avg_volume", TRUE),
       Metric("Dividend Yield", "dividend_yield", FALSE),
       Metric("Beta", "beta", FALSE),
       Metric("Analyst Rec", "recommendation", FALSE),
       Metric("1Y Performance", "performance_1y", FALSE),
       Metric("1M Performance", "performance_1m", FALSE),
       Metric("5D Performance", "performance_5d", FALSE) >>

\* data.get(key, 'N/A')
DataGet(data, key) == IF key \in DOMAIN data THEN data[key] ELSE NA

\* lines 242-245: the value shown for one ticker
Formatted(val, is_currency, is_indian) ==
    IF val # NA /\ is_currency THEN _format_number(val, TRUE, is_indian) ELSE val

Shown(data, m) == Formatted(DataGet(data, m.key), m.is_currency, data["is_indian"])

\* the dict literal of lines 247-252: a key written twice keeps the later value
TableRow(ticker1, ticker2, data1, data2, m) ==
    [column \in {"Metric", ticker1, ticker2, "Delta"} |->
        IF column = "Delta"
        THEN (IF m.key # "recommendation"
              THEN calculate_delta(data1[m.key], data2[m.key])
              ELSE PyNone)
        ELSE IF column \in {ticker1, ticker2}
        THEN Shown(IF column = ticker2 THEN data2 ELSE data1, m)
        ELSE Str(m.name)]

\* lines 236-252: one row for each metric
Rows(ticker1, ticker2, data1, data2) ==
    [i \in 1..Len(metrics) |-> TableRow(ticker1, ticker2, data1, data2, metrics[i])]

\* the records get_stock_data can hand to a comparison, each with its ticker
Fetchable ==
    { [ticker |-> ticker, data |-> StockDataOf[ticker][q]] :
          ticker \in Tickers, q \in PairOutcomes }
    \ { [ticker |-> ticker, data |-> PyNone] : ticker \in Tickers }

\* Rows for every pair of fetched records, worked out once
RowsOf == [a, b \in Fetchable |-> Rows(a.ticker, b.ticker, a.data, b.data)]

\* lines 236-260
Report(ticker1, ticker2, data1, data2, self_last_update) ==
    [table |-> RowsOf[<< [ticker |-> ticker1, data |-> data1],
                         [ticker |-> ticker2, data |-> data2] >>],
     data1 |-> data1,
     data2 |-> data2,
     is_indian |-> data1["is_indian"] \/ data2["is_indian"],
     last_update |-> self_last_update]

\* lines 207-260 with "and" for "or": a report as soon as one fetch succeeded
Assemble_PartialReport(ticker1, ticker2, r1, r2) ==
    [fetched |-> r2.calls,
     now |-> r2.now,
     last_update |-> r2.last_update,
     ret |-> IF r1.data = PyNone /\ r2.data = PyNone THEN PyNone
             ELSE IF r1.data = PyNone \/ r2.data = PyNone
             THEN [table |-> <<>>, data1 |-> r1.data, data2 |-> r2.data,
                   is_indian |-> FALSE, last_update |-> r2.last_update]
             ELSE Report(ticker1, ticker2, r1.data, r2.data, r2.last_update)]

\* lines 207-260, given what the two get_stock_data calls returned and left
Assemble(ticker1, ticker2, r1, r2) ==
    [fetched |-> r2.calls,
     now |-> r2.now,
     last_update |-> r2.last_update,
     ret |-> IF r1.data = PyNone \/ r2.data = PyNone THEN PyNone
             ELSE Report(ticker1, ticker2, r1.data, r2.data, r2.last_update)]

\* the second fetch is skipped once the first has failed
SecondFetch_ShortCircuit(ticker1, ticker2, r1, q2, e2) ==
    IF r1.data = PyNone
    THEN [fetched |-> r1.calls, now |-> r1.now, last_update |-> r1.last_update,
          ret |-> PyNone]
    ELSE Assemble(ticker1, ticker2, r1,
                  get_stock_data(r1.calls, r1.last_update, r1.now, ticker2, q2, e2))

\* lines 205-260, given what the first get_stock_data call returned and left
SecondFetch(ticker1, ticker2, r1, q2, e2) ==
    Assemble(ticker1, ticker2, r1,
             get_stock_data(r1.calls, r1.last_update, r1.now, ticker2, q2, e2))

\* generate_comparison(ticker1, ticker2) when the provider answers q1 and q2 after
\* e1 and e2 clock ticks: the calls made, the clock and self.last_update after the
\* call, and the value returned
generate_comparison(self_last_update, clock, ticker1, ticker2, q1, q2, e1, e2) ==
    SecondFetch(ticker1, ticker2,
                get_stock_data(<<>>, self_last_update, clock, ticker1, q1, e1), q2, e2)

-----------------------------------------------------------------------------
(* The dashboard script: it builds the agent, calls it and uses what it returns *)

NoCall == [t |-> "nocall"]

\* agent = StockAnalysisAgent()
Init ==
    /\ last_update = PyNone
    /\ now = 0
    /\ pc = "idle"
    /\ op = "init"
    /\ args = NoCall
    /\ ret = NoCall
    /\ fetched = <<>>

\* a call returns: what it returned and what it left behind
Returns(name, a, r) ==
    /\ pc' = "returned"
    /\ op' = name
    /\ args' = a
    /\ ret' = r.ret
    /\ fetched' = r.fetched
    /\ last_update' = r.last_update
    /\ now' = r.now

\* a call of a method that reads and writes nothing of the agent
Pure(value) == [ret |-> value, fetched |-> <<>>, last_update |-> last_update, now |-> now]

\* get_stock_data or get_historical_data called on its own
Single(r) ==
    [ret |-> r.data, fetched |-> r.calls, last_update |-> r.last_update, now |-> r.now]

GenerateComparison ==
    \E ticker1 \in Tickers, ticker2 \in Tickers, q1 \in PairOutcomes, q2 \in PairOutcomes,
       e1 \in 0..MaxElapsed, e2 \in 0..MaxElapsed :
        /\ pc = "idle"
        /\ now + e1 + e2 <= MaxClock
        /\ Returns("generate_comparison",
                   [ticker1 |-> ticker1, ticker2 |-> ticker2, q1 |-> q1, q2 |-> q2],
                   generate_comparison(last_update, now, ticker1, ticker2, q1, q2, e1, e2))

GetStockData ==
    \E ticker \in Tickers, q \in Outcomes, e \in 0..MaxElapsed :
        /\ pc = "idle"
        /\ now + e <= MaxClock
        /\ Returns("get_stock_data", [ticker |-> ticker, q |-> q],
                   Single(get_stock_data(<<>>, last_update, now, ticker, q, e)))

GetHistoricalData ==
    \E ticker \in Tickers, period \in Periods, q \in Outcomes, e \in 0..MaxElapsed :
        /\ pc = "idle"
        /\ now + e <= MaxClock
        /\ Returns("get_historical_data", [ticker |-> ticker, period |-> period, q |-> q],
                   Single(get_historical_data(<<>>, last_update, now, ticker, period, q, e)))

CalculateDelta ==
    \E val1 \in DeltaValues, val2 \in DeltaValues :
        /\ pc = "idle"
        /\ Returns("calculate_delta", [val1 |-> val1, val2 |-> val2],
                   Pure(calculate_delta(val1, val2)))

GetRecommendation ==
    \E score \in Scores :
        /\ pc = "idle"
        /\ Returns("_get_recommendation", [score |-> score],
                   Pure(_get_recommendation(score)))

CalculatePerformance ==
    \E history \in Histories :
        /\ pc = "idle"
        /\ Returns("_calculate_performance", [history |-> history],
                   Pure(_calculate_performance(history)))

\* the script goes on with the same agent
Continue ==
    /\ pc = "returned"
    /\ pc' = "idle"
    /\ op' = "init"
    /\ args' = NoCall
    /\ ret' = NoCall
    /\ fetched' = <<>>
    /\ UNCHANGED <<last_update, now>>

\* the script runs again from the top and builds a new agent (app.py line 22)
Rerun ==
    /\ pc = "returned"
    /\ pc' = "idle"
    /\ op' = "init"
    /\ args' = NoCall
    /\ ret' = NoCall
    /\ fetched' = <<>>
    /\ last_update' = PyNone
    /\ UNCHANGED now

Next ==
    \/ GenerateComparison
    \/ GetStockData
    \/ GetHistoricalData
    \/ CalculateDelta
    \/ GetRecommendation
    \/ CalculatePerformance
    \/ Continue
    \/ Rerun

Spec == Init /\ [][Next]_vars

-----------------------------------------------------------------------------
(* What a returned call shows *)

\* the records a returned call hands to its caller, each with the ticker asked for
\* and the provider's answer it was built from
Seen ==
    IF op = "get_stock_data" /\ ret # PyNone
    THEN << [ticker |-> args.ticker, q |-> args.q, data |-> ret] >>
    ELSE IF op = "generate_comparison" /\ ret # PyNone
    THEN << [ticker |-> args.ticker1, q |-> args.q1, data |-> ret.data1],
            [ticker |-> args.ticker2, q |-> args.q2, data |-> ret.data2] >>
    ELSE << >>

\* the link the provider gave for the i-th item of a seen record, "" when it gave none
ProviderLink(s, i) == Get(Top3(s.q.news.items)[i], "link", "")

\* the provider has no headline for the ticker
ZeroNews(q) == q.news = [t |-> "noattr"] \/ q.news = PyNone \/ q.news = NewsList(<<>>)

LocalhostLink == "http://localhost/x"
ExampleLink == "https://example.com/x"

\* the research-portal search URL of the company name "Acme & Co"
AcmePortalURL ==
    "https://www.moneycontrol.com/stocks/cptmarket/compsearchnew.php"
    \o "?search_data=Acme%20%26%20Co&topsearch_type=1&search_str=Acme%20%26%20Co"

-----------------------------------------------------------------------------
(* generate_comparison: all or nothing *)

\* C1: generate_comparison returns a report only when both get_stock_data calls
\* returned a record, and then the report is the full table with both records; when
\* the first fetch, the second, or both fail it returns None, so no table, data1 or
\* data2 reaches the caller.
C1_NoPartialReport ==
    op = "generate_comparison" =>
        IF StockDataOf[args.ticker1][args.q1] = PyNone
           \/ StockDataOf[args.ticker2][args.q2] = PyNone
        THEN ret = PyNone
        ELSE /\ ret # PyNone
             /\ ret.data1 = StockDataOf[args.ticker1][args.q1]
             /\ ret.data2 = StockDataOf[args.ticker2][args.q2]
             /\ Len(ret.table) = Len(metrics)

\* AAPL's fetch fails, TATAMOTORS.NS's succeeds, and the comparison returned None
C1_FirstFetchFailed ==
    /\ op = "generate_comparison"
    /\ args.ticker1 = AAPL
    /\ args.q1 = Failure
    /\ args.ticker2 = TATAMOTORS_NS
    /\ args.q2 = BaseQuote
    /\ StockDataOf[args.ticker2][args.q2] # PyNone
    /\ ret = PyNone

\* C2: in every run of generate_comparison the provider is asked for the first
\* ticker and then for the second, once each, also when the first fetch has failed.
C2_EachTickerFetchedOnce ==
    op = "generate_comparison" => fetched = <<args.ticker1, args.ticker2>>

\* the first fetch raised, and the provider was still asked for the second ticker
C2_SecondFetchedAfterFailure ==
    /\ op = "generate_comparison"
    /\ args.q1 = Failure
    /\ args.ticker1 # args.ticker2
    /\ Len(fetched) = 2
    /\ fetched[2] = args.ticker2
    /\ ret = PyNone

\* C3: a generate_comparison call leaves the agent's own state, last_update included,
\* as it was before the call, whether it returns a report or None.
C3_ComparisonLeavesNoTrace ==
    [][op' = "generate_comparison" => last_update' = last_update]_vars

-----------------------------------------------------------------------------
(* get_stock_data: the news list and the fundamentals *)

\* the host of a netloc: lower case, without user information and port
LastAt(netloc) ==
    IF Contains(netloc, "@")
    THEN CHOOSE i \in 1..Len(netloc) :
             Char(netloc, i) = "@" /\ \A j \in (i + 1)..Len(netloc) : Char(netloc, j) # "@"
    ELSE 0
HostPort(netloc) == After(netloc, LastAt(netloc))
HostOf(netloc) ==
    LET hp == str_lower(HostPort(netloc))
    IN IF StartsWith(hp, "[") /\ Contains(hp, "]") THEN Before(hp, Find(hp, "]", 1) + 1)
       ELSE IF Contains(hp, ":") THEN Before(hp, Find(hp, ":", 1))
       ELSE hp

\* hosts that name the machine itself
LoopbackHosts == {"localhost", "127.0.0.1", "[::1]"}

\* an absolute URL whose host is not a loopback address
AbsoluteNotLoopback(result) ==
    /\ result # Raise
    /\ result.scheme # ""
    /\ result.netloc # ""
    /\ HostOf(result.netloc) \notin LoopbackHosts

\* the web-search URL built from a title
WebSearchURL(title) == "https://www.google.com/search?q=" \o quote(title)

\* C4: every item in the news list of a successfully fetched record has a link that
\* is an absolute URL, with a scheme and a host, whose host is not a loopback
\* address, whatever link the provider gave and for domestic and foreign tickers;
\* for a foreign ticker a provider link that is not such a URL is replaced by the
\* web-search URL built from the title.
C4_LinksAbsoluteNotLoopback ==
    \A k \in 1..Len(Seen) :
        \A i \in 1..Len(Seen[k].data["news"]) :
            /\ AbsoluteNotLoopback(urlparse(Seen[k].data["news"][i].link))
            /\ (~_is_indian_stock(Seen[k].ticker)
                /\ ~AbsoluteNotLoopback(urlparse(ProviderLink(Seen[k], i))))
               => Seen[k].data["news"][i].link
                  = WebSearchURL(Seen[k].data["news"][i].title)

\* C5: for a domestic ticker (suffix .NS or .BO) every news item's link is the
\* research-portal search URL built from the company name, whatever link the
\* provider gave, and its is_moneycontrol flag is true; for a foreign ticker the
\* flag is false and the link is the provider's link whenever that link passes
\* validation.
C5_DomesticLinksGoToPortal ==
    \A k \in 1..Len(Seen) :
        \A i \in 1..Len(Seen[k].data["news"]) :
            IF _is_indian_stock(Seen[k].ticker)
            THEN /\ Seen[k].data["news"][i].link
                    = _get_moneycontrol_url(Seen[k].ticker, Seen[k].data["company_name"])
                 /\ Seen[k].data["news"][i].is_moneycontrol = TRUE
            ELSE /\ Seen[k].data["news"][i].is_moneycontrol = FALSE
                 /\ _is_valid_url(ProviderLink(Seen[k], i))
                    => Seen[k].data["news"][i].link = ProviderLink(Seen[k], i)

\* a domestic ticker whose provider item links to http://localhost/x: the item
\* links to the portal search for "Acme & Co"
C5_DomesticLocalhostLink ==
    /\ op = "get_stock_data"
    /\ args.ticker = TATAMOTORS_NS
    /\ args.q = WithNews(BaseQuote, NewsList(<< Item(Headline, "Reuters", LocalhostLink) >>))
    /\ ret # PyNone
    /\ Len(ret["news"]) = 1
    /\ ret["news"][1].link = AcmePortalURL
    /\ ret["news"][1].is_moneycontrol = TRUE

\* a foreign ticker whose provider item carries a valid link: the link is kept
C5_ForeignValidLink ==
    /\ op = "get_stock_data"
    /\ args.ticker = AAPL
    /\ args.q = WithNews(BaseQuote, NewsList(<< Item(Headline, "Reuters", ExampleLink) >>))
    /\ ret # PyNone
    /\ Len(ret["news"]) = 1
    /\ ret["news"][1].link = ExampleLink
    /\ ret["news"][1].is_moneycontrol = FALSE

\* C6: when the provider has no news item for a successfully fetched ticker, the
\* record's news list holds exactly one item, pointing at the research-portal
\* search URL, if the ticker is domestic, and no item if the ticker is foreign.
C6_DomesticNeverWithoutNews ==
    \A k \in 1..Len(Seen) :
        ZeroNews(Seen[k].q) =>
            IF _is_indian_stock(Seen[k].ticker)
            THEN /\ Len(Seen[k].data["news"]) = 1
                 /\ Seen[k].data["news"][1].link
                    = _get_moneycontrol_url(Seen[k].ticker, Seen[k].data["company_name"])
            ELSE Len(Seen[k].data["news"]) = 0

\* lines 165-179: the key of the record that holds each fundamentals field
FieldOf ==
    [key \in FundamentalKeys |->
        CASE key = "marketCap" -> "market_cap"
          [] key = "trailingPE" -> "pe_ratio"
          [] key = "pegRatio" -> "peg_ratio"
          [] key = "forwardPE" -> "forward_pe"
          [] key = "priceToBook" -> "price_to_book"
          [] key = "enterpriseValue" -> "enterprise_value"
          [] key = "ebitda" -> "ebitda"
          [] key = "debtToEquity" -> "debt_to_equity"
          [] key = "currentRatio" -> "current_ratio"
          [] key = "returnOnEquity" -> "return_on_equity"
          [] key = "fiftyTwoWeekHigh" -> "52w_high"
          [] key = "fiftyTwoWeekLow" -> "52w_low"
          [] key = "averageVolume" -> "avg_volume"
          [] key = "dividendYield" -> "dividend_yield"
          [] key = "beta" -> "beta"]

\* the fundamentals fields the provider left out of its answer
Omitted(q) == FundamentalKeys \ DOMAIN q.info

\* C7: when the provider omits a fundamentals field in an otherwise successful
\* fetch, the record holds 'N/A' for that field, never None, and the comparison
\* table's row for that field shows 'N/A' for that ticker, for currency and
\* non-currency metrics alike.
C7_OmittedFieldIsNA ==
    /\ \A k \in 1..Len(Seen) :
           \A key \in Omitted(Seen[k].q) : Seen[k].data[FieldOf[key]] = NA
    /\ (op = "generate_comparison" /\ ret # PyNone) =>
           \A i \in 1..Len(metrics) :
               \A key \in Omitted(args.q2) :
                   metrics[i].key = FieldOf[key] => ret.table[i][args.ticker2] = NA

-----------------------------------------------------------------------------
(* The pure helpers: calculate_delta, _calculate_performance, _get_recommendation *)

\* None, the 'N/A' sentinel, or a string that is not the text of a number
NonNumeric(v) ==
    \/ v = PyNone
    \/ v = NA
    \/ float(v) = Raise

\* a number, or the text of a number, whose value is zero of either sign
EqualsZero(v) == float(v) # Raise /\ float(v).t = "num" /\ float(v).m = <<>>

\* C8: calculate_delta(val1, val2) returns None, and never raises, whenever val2 is
\* zero or either argument is None, 'N/A' or another non-numeric value; it returns
\* a string only when both arguments are numeric and val2 is not zero.
C8_DeltaAbsentWithoutNumbers ==
    op = "calculate_delta" =>
        /\ ret # Raise
        /\ (NonNumeric(args.val1) \/ NonNumeric(args.val2) \/ EqualsZero(args.val2))
           => ret = PyNone
        /\ ret # PyNone
           => /\ ret.t = "str"
              /\ ~NonNumeric(args.val1)
              /\ ~NonNumeric(args.val2)
              /\ ~EqualsZero(args.val2)

\* two numbers, the second zero: no delta
C8_ZeroDenominator ==
    /\ op = "calculate_delta"
    /\ args.val1 = F(10, 1)
    /\ args.val2 = Zero
    /\ ret = PyNone

\* a number against the formatted string '12.34%': no delta
C8_FormattedString ==
    /\ op = "calculate_delta"
    /\ args.val1 = F(10, 1)
    /\ args.val2 = Str("12.34%")
    /\ ret = PyNone

\* two numbers, the second not zero: a delta string
C8_DeltaString ==
    /\ op = "calculate_delta"
    /\ args.val1 = F(10, 1)
    /\ args.val2 = F(3, 1)
    /\ ret = Str("233.3% above")

\* (end - start) / start * 100 with two decimals and a trailing '%'
PercentChange(start, end) ==
    Str(Fixed(FMul(FQuot(FSub(end, start), start), Hundred), 2, FALSE) \o "%")

\* C9: for a price history of at least 2 points _calculate_performance returns
\* 'N/A' when the first closing price is zero, and otherwise
\* (end - start) / start * 100 with two decimals and a trailing '%'.
C9_ZeroStartIsNA ==
    op = "_calculate_performance" =>
        IF args.history = PyNone THEN TRUE
        ELSE IF Len(args.history.close) < 2 THEN TRUE
        ELSE IF EqualsZero(args.history.close[1]) THEN ret = NA
        ELSE ret = PercentChange(args.history.close[1],
                                 args.history.close[Len(args.history.close)])

\* v <= a / b for a number v and integers a, b with b > 0
AtMost(v, a, b) ==
    IF v.sg < 0 \/ v.m = <<>> THEN a >= 0
    ELSE IF v.x >= 0 THEN NCmp(NShl(NMulSmall(v.m, b), v.x), NatOf(a)) <= 0
    ELSE NCmp(NMulSmall(v.m, b), NShl(NatOf(a), -v.x)) <= 0

\* the tier of the claim for a number or an infinity
TierOf(v) ==
    IF v.t = "inf" THEN (IF v.sg = 1 THEN "Strong Sell" ELSE "Strong Buy")
    ELSE IF AtMost(v, 15, 10) THEN "Strong Buy"
    ELSE IF AtMost(v, 25, 10) THEN "Buy"
    ELSE IF AtMost(v, 35, 10) THEN "Hold"
    ELSE IF AtMost(v, 45, 10) THEN "Sell"
    ELSE "Strong Sell"

\* how bearish a tier is
Bearishness(tier) ==
    CASE tier = Str("Strong Buy") -> 1
      [] tier = Str("Buy") -> 2
      [] tier = Str("Hold") -> 3
      [] tier = Str("Sell") -> 4
      [] tier = Str("Strong Sell") -> 5

\* the scores that are numbers: not None, not a non-numeric string, not NaN
NumberScores == { s \in Scores : ~NonNumeric(s) /\ float(s) # NaN }

\* C10: _get_recommendation maps a numeric score s to the tier given by inclusive
\* upper bounds tried in ascending order (s <= 1.5 'Strong Buy', s <= 2.5 'Buy',
\* s <= 3.5 'Hold', s <= 4.5 'Sell', else 'Strong Sell'), maps None and non-numeric
\* input to 'N/A', and never gives a larger score a less bearish tier.
C10_TiersByInclusiveBounds ==
    op = "_get_recommendation" =>
        IF NonNumeric(args.score) THEN ret = NA
        ELSE IF float(args.score) = NaN THEN TRUE
        ELSE /\ ret = Str(TierOf(float(args.score)))
             /\ \A s \in NumberScores :
                    FLe(float(args.score), float(s))
                    => Bearishness(ret) <= Bearishness(_get_recommendation(s))

\* the boundary 4.5 falls in the more bullish tier
C10_BoundaryIsSell ==
    /\ op = "_get_recommendation"
    /\ args.score = F(45, 10)
    /\ ret = Str("Sell")

\* the boundary 1.5 falls in the more bullish tier
C10_BoundaryIsStrongBuy ==
    /\ op = "_get_recommendation"
    /\ args.score = F(15, 10)
    /\ ret = Str("Strong Buy")

-----------------------------------------------------------------------------
(* generate_comparison: the rows of the table *)

\* C11: when both fetches succeed, also for two identical symbols, every row of the
\* report's table carries four separate entries: the metric label, the value for
\* ticker A, the value for ticker B and the delta; the value for A is not
\* overwritten by the value for B.
C11_RowsCarryFourEntries ==
    (op = "generate_comparison" /\ ret # PyNone) =>
        \A i \in 1..Len(metrics) :
            /\ Cardinality(DOMAIN ret.table[i]) = 4
            /\ ret.table[i]["Metric"] = Str(metrics[i].name)
            /\ ret.table[i][args.ticker1] = Shown(ret.data1, metrics[i])
            /\ ret.table[i][args.ticker2] = Shown(ret.data2, metrics[i])
            /\ "Delta" \in DOMAIN ret.table[i]

-----------------------------------------------------------------------------
(* calculate_delta: the direction word *)

\* |a| * 2^(-lo) as a natural number, for a finite a with a.x >= lo
Magnitude(a, lo) == NShl(a.m, a.x - lo)

\* a > b on finite numbers, by their exact values
GreaterFinite(a, b, lo) ==
    IF a.sg = 1 /\ b.sg = 1 THEN NCmp(Magnitude(a, lo), Magnitude(b, lo)) > 0
    ELSE IF a.sg = 1 THEN a.m # <<>> \/ b.m # <<>>
    ELSE IF b.sg = 1 THEN FALSE
    ELSE NCmp(Magnitude(a, lo), Magnitude(b, lo)) < 0

\* a > b on numbers and infinities; false as soon as one is NaN
Greater(a, b) ==
    IF a.t = "nan" \/ b.t = "nan" THEN FALSE
    ELSE IF a.t = "inf" THEN a.sg = 1 /\ ~(b.t = "inf" /\ b.sg = 1)
    ELSE IF b.t = "inf" THEN b.sg = -1
    ELSE GreaterFinite(a, b, Min(a.x, b.x))

\* the percentage a delta prints: (val1 - val2) / val2 * 100 with one decimal
PrintedPercent(f1, f2) == Fixed(FMul(FQuot(FSub(f1, f2), f2), Hundred), 1, FALSE)

\* C12: whenever calculate_delta(val1, val2) returns a string, the string is the
\* percentage followed by 'above' if val1 is strictly greater than val2 and by
\* 'below' otherwise, whatever the sign of val2 and of the printed percentage; two
\* equal values that are not zero give 'below'.
C12_WordFollowsOrder ==
    (op = "calculate_delta" /\ ret # PyNone) =>
        ret = Str(PrintedPercent(float(args.val1), float(args.val2)) \o "% "
                  \o (IF Greater(float(args.val1), float(args.val2))
                      THEN "above" ELSE "below"))

\* two equal values that are not zero: 'below'
C12_EqualValuesBelow ==
    /\ op = "calculate_delta"
    /\ args.val1 = F(10, 1)
    /\ args.val2 = F(10, 1)
    /\ ret = Str("0.0% below")

\* val1 above a negative val2: a negative percentage worded 'above'
C12_NegativePercentAbove ==
    /\ op = "calculate_delta"
    /\ args.val1 = F(10, 1)
    /\ args.val2 = F(-10, 1)
    /\ ret = Str("-200.0% above")

====
